---- MODULE Spec2Model ----
(***************************************************************************)
(* Adaptive DevOps maturity assessment engine of Meridian.                 *)
(*                                                                         *)
(*   Backend/app/routes/devops_culture.py   submit_assessment,             *)
(*                                          _fallback_assessment,          *)
(*                                          _calculate_improvement_trend   *)
(*   Backend/app/mcp_client.py              MCPDevOpsClient                *)
(*   mcp-server/devops_culture_tools.py     devops_culture_assessment      *)
(*                                                                         *)
(* Scores are Python floats in the source.  The model computes them in     *)
(* exact arithmetic: every score of the fallback scorer is a multiple of   *)
(* 1/30 point (a sum of multiples of 25 divided by a count of 1..3, then a *)
(* sum of five of those divided by 5), so a score s is held as the integer *)
(* s * Unit.  The binary float of the source can differ from that value by *)
(* a few units in the last place when a category has three answers whose   *)
(* sum is not divisible by 3; with at most two answers per category the    *)
(* float arithmetic is exact.                                              *)
(***************************************************************************)
EXTENDS Integers, Sequences, FiniteSets, TLC

VARIABLES
    schema,     \* column layout of the devops_assessments table
    store,      \* rows of devops_assessments, oldest first
    next_id,    \* the next uuid4 that submit_assessment will draw
    calls,      \* the submit_assessment requests, by request slot
    returned,   \* by user, the latest assessment submit_assessment returned
    arg,        \* input of the pure function under study
    ret         \* what the pure function returned for arg

vars == <<schema, store, next_id, calls, returned, arg, ret>>

-----------------------------------------------------------------------------
(* Bounds of the model                                                     *)

\* number of entries of a responses mapping
MaxAnswers == 2
\* number of submit_assessment requests in one behaviour of SpecHistory
MaxSequence == 3
\* number of entries of the category_scores of a history entry
MaxScoreEntries == 2
\* number of questions in an answer of the AI model
MaxAiQuestions == 2
\* number of submit_assessment requests in one behaviour
MaxSubmissions == 2
\* length of a user_history list handed to the trend function
MaxHist == 2

-----------------------------------------------------------------------------
(* Numbers                                                                 *)

\* one score point; 30 = lcm(1, 2, 3) * 5 makes both divisions exact
Unit == 2 * 3 * 5

\* a value of a Python variable that holds a score: a number, None or a str
Num(v) == [t |-> "num", v |-> v]
NoneScore == [t |-> "none", v |-> 0]
StrScore == [t |-> "str", v |-> 0]

\* round(x, 1): the nearest tenth of a point; a tenth is 3 units, and no
\* multiple of 1/30 lies halfway between two tenths
Round1(x) == 3 * ((x + 1) \div 3)

RECURSIVE SumOver(_, _)
SumOver(f, keys) ==
    IF keys = {} THEN 0
    ELSE LET k == CHOOSE x \in keys : TRUE
         IN f[k] + SumOver(f, keys \ {k})

\* sum(d.values())
SumValues(f) == SumOver(f, DOMAIN f)

-----------------------------------------------------------------------------
(* _fallback_assessment: the deterministic scorer                          *)

\* keys of category_scores
CategoryNames == {"Collaboration", "Automation", "Monitoring", "Culture", "Delivery"}

question_categories ==
    [collaboration_tools |-> "Collaboration",
     cross_team_communication |-> "Collaboration",
     shared_responsibilities |-> "Collaboration",
     ci_cd_pipeline |-> "Automation",
     infrastructure_automation |-> "Automation",
     automated_testing |-> "Automation",
     monitoring_alerting |-> "Monitoring",
     observability |-> "Monitoring",
     incident_response |-> "Monitoring",
     psychological_safety |-> "Culture",
     continuous_learning |-> "Culture",
     failure_learning |-> "Culture",
     deployment_frequency |-> "Delivery",
     lead_time |-> "Delivery",
     customer_feedback |-> "Delivery"]

\* (value - 1) * 25, in points
RescaleRating_no_offset(value) == value * 25
RescaleRating(value) == (value - 1) * 25

\* the loop over submission.responses.items(): sums and counts by category
RECURSIVE AccumulateResponses(_, _, _)
AccumulateResponses(responses, todo, acc) ==
    IF todo = {} THEN acc
    ELSE LET question == CHOOSE q \in todo : TRUE
             value == responses[question]
             step ==
                 IF question \in DOMAIN question_categories
                 THEN LET category == question_categories[question]
                      IN [scores |-> [acc.scores EXCEPT ![category] = @ + RescaleRating(value)],
                          counts |-> [acc.counts EXCEPT ![category] = @ + 1]]
                 ELSE acc
         IN AccumulateResponses(responses, todo \ {question}, step)

\* category_scores after "Average the scores properly", in units
AverageScores_by_total(acc) ==
    [category \in CategoryNames |->
        IF SumValues(acc.counts) > 0
        THEN (acc.scores[category] * Unit) \div SumValues(acc.counts)
        ELSE acc.scores[category] * Unit]
AverageScores(acc) ==
    [category \in CategoryNames |->
        IF acc.counts[category] > 0
        THEN (acc.scores[category] * Unit) \div acc.counts[category]
        ELSE acc.scores[category] * Unit]

\* the if/elif chain on overall_score
FallbackMaturityLevel_exclusive(overall_score) ==
    IF overall_score > 85 * Unit THEN "Expert"
    ELSE IF overall_score > 70 * Unit THEN "Advanced"
    ELSE IF overall_score > 55 * Unit THEN "Intermediate"
    ELSE IF overall_score > 35 * Unit THEN "Developing"
    ELSE "Novice"
FallbackMaturityLevel(overall_score) ==
    IF overall_score >= 85 * Unit THEN "Expert"
    ELSE IF overall_score >= 70 * Unit THEN "Advanced"
    ELSE IF overall_score >= 55 * Unit THEN "Intermediate"
    ELSE IF overall_score >= 35 * Unit THEN "Developing"
    ELSE "Novice"

\* category_scores, overall_score and maturity_level of the fallback
FallbackScore(responses) ==
    LET zero == [category \in CategoryNames |-> 0]
        acc == AccumulateResponses(responses, DOMAIN responses,
                                   [scores |-> zero, counts |-> zero])
        category_scores == AverageScores(acc)
        overall_score == SumValues(category_scores) \div Cardinality(DOMAIN category_scores)
    IN [category_scores |-> category_scores,
        overall_score |-> overall_score,
        maturity_level |-> FallbackMaturityLevel(overall_score)]

-----------------------------------------------------------------------------
(* devops_culture_assessment: the assessment tool of the MCP server        *)

\* d.get(key, default)
DictGet(d, key, default) == IF key \in DOMAIN d THEN d[key] ELSE default

\* the response that feeds each entry of scores
ToolQuestions ==
    [collaboration |-> "collaboration_tools",
     automation |-> "ci_cd_pipeline",
     monitoring |-> "monitoring_alerting",
     culture |-> "psychological_safety",
     delivery |-> "deployment_frequency"]

get_maturity_level_name(score) ==
    IF score >= 80 * Unit THEN "Optimizing"
    ELSE IF score >= 60 * Unit THEN "Managed"
    ELSE IF score >= 40 * Unit THEN "Defined"
    ELSE IF score >= 20 * Unit THEN "Developing"
    ELSE "Initial"

\* the keys of scores in the order the dict literal inserts them
ScoreKeys == <<"collaboration", "automation", "monitoring", "culture", "delivery">>

strength_map ==
    [collaboration |-> "Strong team collaboration and communication",
     automation |-> "Well-established automation practices",
     monitoring |-> "Comprehensive monitoring and observability",
     culture |-> "Healthy DevOps culture and mindset",
     delivery |-> "Efficient delivery and deployment practices"]

identify_strengths(scores) ==
    LET areas == SelectSeq(ScoreKeys, LAMBDA area : scores[area] >= 4)
        strengths == [i \in 1..Len(areas) |-> strength_map[areas[i]]]
    IN IF Len(strengths) > 0 THEN strengths
       ELSE <<"Team shows potential for DevOps growth">>

improvement_map ==
    [collaboration |-> "Team collaboration and communication practices",
     automation |-> "Automation and CI/CD pipeline maturity",
     monitoring |-> "Monitoring and observability capabilities",
     culture |-> "DevOps culture and learning mindset",
     delivery |-> "Delivery frequency and deployment practices"]

identify_improvement_areas(scores) ==
    LET areas == SelectSeq(ScoreKeys, LAMBDA area : scores[area] <= 2)
        improvements == [i \in 1..Len(areas) |-> improvement_map[areas[i]]]
    IN IF Len(improvements) > 0 THEN improvements
       ELSE <<"Continue building on existing strengths">>

rec_map ==
    [collaboration |->
        [area |-> "Team Collaboration",
         action |-> "Implement daily standups and regular team communication",
         priority |-> "High", effort |-> "2-3 weeks"],
     automation |->
        [area |-> "CI/CD Pipeline",
         action |-> "Set up basic automated build and deployment pipeline",
         priority |-> "High", effort |-> "4-6 weeks"],
     monitoring |->
        [area |-> "System Monitoring",
         action |-> "Implement basic application and infrastructure monitoring",
         priority |-> "Medium", effort |-> "2-4 weeks"],
     culture |->
        [area |-> "DevOps Culture",
         action |-> "Establish blameless post-incident reviews and learning culture",
         priority |-> "Medium", effort |-> "Ongoing"],
     delivery |->
        [area |-> "Deployment Practices",
         action |-> "Increase deployment frequency and reduce batch sizes",
         priority |-> "High", effort |-> "6-8 weeks"]]

generate_basic_recommendations(scores) ==
    LET areas == SelectSeq(ScoreKeys, LAMBDA area : scores[area] <= 2)
        recommendations == [i \in 1..Len(areas) |-> rec_map[areas[i]]]
    IN SubSeq(recommendations, 1, IF Len(recommendations) < 5
                                  THEN Len(recommendations) ELSE 5)

recommendation_templates ==
    [automation |->
        [area |-> "CI/CD Automation",
         action |-> "Set up automated build and deployment pipeline",
         priority |-> "High", effort |-> "2-3 weeks",
         impact |-> "Faster, more reliable deployments"],
     monitoring |->
        [area |-> "Monitoring & Observability",
         action |-> "Implement application and infrastructure monitoring",
         priority |-> "High", effort |-> "1-2 weeks",
         impact |-> "Better visibility into system health"],
     collaboration |->
        [area |-> "Team Collaboration",
         action |-> "Establish daily standups and code review process",
         priority |-> "Medium", effort |-> "1 week",
         impact |-> "Improved communication and code quality"]]

\* sorted(scores.items(), key=lambda x: x[1]): ascending by score, the areas
\* of equal score in the order of the dict (the sort is stable)
SortedAreas(scores) ==
    LET position(area) == CHOOSE i \in 1..Len(ScoreKeys) : ScoreKeys[i] = area
        rank(area) ==
            1 + Cardinality({other \in DOMAIN scores :
                    \/ scores[other] < scores[area]
                    \/ scores[other] = scores[area] /\ position(other) < position(area)})
    IN [r \in 1..Cardinality(DOMAIN scores) |->
           CHOOSE area \in DOMAIN scores : rank(area) = r]

\* the templates of the three lowest areas, for those that have one
generate_fallback_recommendations(scores) ==
    LET sorted_scores == SortedAreas(scores)
        lowest == SubSeq(sorted_scores, 1, IF Len(sorted_scores) < 3
                                           THEN Len(sorted_scores) ELSE 3)
        areas == SelectSeq(lowest, LAMBDA area : area \in DOMAIN recommendation_templates)
    IN [i \in 1..Len(areas) |-> recommendation_templates[areas[i]]]

\* a dict without entries
EmptyDict == [k \in {} |-> 0]

\* the mapping the tool returns; dimensional_scores are the raw 1..5
\* answers, here as points
devops_culture_assessment(assessment_responses) ==
    LET scores == [dim \in DOMAIN ToolQuestions |->
                      DictGet(assessment_responses, ToolQuestions[dim], 2)]
        overall_score ==
            ((SumValues(scores) * Unit) \div Cardinality(DOMAIN scores) - Unit) * 25
    IN [kind |-> "mapping",
        has_score |-> TRUE,
        maturity_score |-> Num(Round1(overall_score)),
        has_level |-> TRUE,
        maturity_level |-> get_maturity_level_name(overall_score),
        dimensional_scores |-> [dim \in DOMAIN scores |-> scores[dim] * Unit],
        strengths |-> identify_strengths(scores),
        improvement_areas |-> identify_improvement_areas(scores),
        recommendations |-> generate_basic_recommendations(scores)]

-----------------------------------------------------------------------------
(* generate_adaptive_questions: the question selector of the MCP server    *)

\* the entries of question_bank["advanced"], each named by its focus
BankEntry(category, focus) == [category |-> category, focus |-> focus]

question_bank ==
    [advanced |->
        <<BankEntry("Culture", "culture_maturity"),
          BankEntry("Automation", "infrastructure_automation"),
          BankEntry("Monitoring", "observability_maturity"),
          BankEntry("Collaboration", "team_autonomy"),
          BankEntry("Delivery", "deployment_sophistication"),
          BankEntry("Culture", "learning_culture"),
          BankEntry("Automation", "testing_maturity"),
          BankEntry("Monitoring", "reliability_engineering"),
          BankEntry("Collaboration", "knowledge_management"),
          BankEntry("Delivery", "deployment_automation"),
          BankEntry("Culture", "psychological_safety"),
          BankEntry("Automation", "security_automation"),
          BankEntry("Monitoring", "performance_culture"),
          BankEntry("Collaboration", "incident_coordination"),
          BankEntry("Delivery", "data_driven_development")>>]

\* str.lower() on the strings of the model
LowerCase(str) ==
    CASE str = "Collaboration" -> "collaboration"
      [] str = "Automation" -> "automation"
      [] str = "Monitoring" -> "monitoring"
      [] str = "Culture" -> "culture"
      [] str = "Delivery" -> "delivery"
      [] str = "Security" -> "security"
      [] str = "Auto" -> "auto"
      [] str = "Novice" -> "novice"
      [] str = "Developing" -> "developing"
      [] str = "Intermediate" -> "intermediate"
      [] str = "Advanced" -> "advanced"
      [] str = "Expert" -> "expert"
      [] str = "Initial" -> "initial"
      [] str = "Defined" -> "defined"
      [] str = "Managed" -> "managed"
      [] str = "Optimizing" -> "optimizing"
      [] OTHER -> str

\* needle in hay, for lower-case strings of the model
IsSubstring(needle, hay) ==
    \/ needle = hay
    \/ needle = "auto" /\ hay = "automation"

\* lines 643-651: the lower-cased keys of the latest category_scores whose
\* score is below 60, in the order of the dict.  category_scores is the
\* sequence of its items; score < 60 raises TypeError on None or a str.
WeakAreas_inclusive(user_history) ==
    IF Len(user_history) = 0 THEN [raised |-> FALSE, value |-> <<>>]
    ELSE LET items == user_history[1].category_scores
             weak == SelectSeq(items, LAMBDA item :
                         item.score.t = "num" /\ item.score.v <= 60 * Unit)
         IN [raised |-> \E i \in 1..Len(items) : items[i].score.t # "num",
             value |-> [i \in 1..Len(weak) |-> LowerCase(weak[i].key)]]
WeakAreas(user_history) ==
    IF Len(user_history) = 0 THEN [raised |-> FALSE, value |-> <<>>]
    ELSE LET items == user_history[1].category_scores
             weak == SelectSeq(items, LAMBDA item :
                         item.score.t = "num" /\ item.score.v < 60 * Unit)
         IN [raised |-> \E i \in 1..Len(items) : items[i].score.t # "num",
             value |-> [i \in 1..Len(weak) |-> LowerCase(weak[i].key)]]

\* seq[:n] for n >= 0
Take(seq, n) == SubSeq(seq, 1, IF n < Len(seq) THEN n ELSE Len(seq))

\* seq[:n] of Python: a negative n counts from the end
PySlice(seq, n) ==
    IF n >= 0 THEN Take(seq, n)
    ELSE Take(seq, IF Len(seq) + n > 0 THEN Len(seq) + n ELSE 0)

\* area.lower() in q["category"].lower()
MatchesArea(area, q) == IsSubstring(LowerCase(area), LowerCase(q.category))

\* lines 788-790: selected_questions.extend(area_questions[:2]) per area
RECURSIVE AddAreaQuestions(_, _, _)
AddAreaQuestions(selected_questions, areas, available_questions) ==
    IF Len(areas) = 0 THEN selected_questions
    ELSE LET area_questions ==
                 SelectSeq(available_questions, LAMBDA q : MatchesArea(areas[1], q))
         IN AddAreaQuestions(selected_questions \o Take(area_questions, 2),
                             Tail(areas), available_questions)

\* lines 784-794: the questions of the weak areas, then the remaining ones
SelectQuestions_bank_order(available_questions, weak_areas) == available_questions
SelectQuestions_weak_last(available_questions, weak_areas) ==
    LET selected_questions == AddAreaQuestions(<<>>, weak_areas, available_questions)
        remaining_questions ==
            SelectSeq(available_questions, LAMBDA q :
                \A i \in 1..Len(selected_questions) : selected_questions[i] # q)
    IN remaining_questions \o selected_questions
SelectQuestions(available_questions, weak_areas) ==
    LET selected_questions == AddAreaQuestions(<<>>, weak_areas, available_questions)
        remaining_questions ==
            SelectSeq(available_questions, LAMBDA q :
                \A i \in 1..Len(selected_questions) : selected_questions[i] # q)
    IN selected_questions \o remaining_questions

\* lines 797-804: the id is adaptive_<i>
FormatQuestions(questions, current_level) ==
    [i \in 1..Len(questions) |->
        [category |-> questions[i].category, focus |-> questions[i].focus,
         id |-> i, difficulty |-> current_level, personalized |-> TRUE]]

\* gemini: [kind |-> "absent"] (no model configured), "raises" (the call or
\* json.loads raises) or "answers" with the decoded list
generate_adaptive_questions(user_history, current_level, question_count, gemini) ==
    LET weak_areas == WeakAreas(user_history)
        available_questions ==
            DictGet(question_bank, LowerCase(current_level), question_bank["advanced"])
        selected_questions == SelectQuestions(available_questions, weak_areas.value)
    IN IF weak_areas.raised THEN <<>>
       ELSE IF gemini.kind = "answers" THEN gemini.questions
       ELSE FormatQuestions(PySlice(selected_questions, question_count), current_level)

-----------------------------------------------------------------------------
(* The question endpoints: MCP server, MCP client, backend                 *)

\* HTTPException(status_code=500), raised by the outer except of a handler
Http500 == [status |-> "http_500"]

\* POST /devops/generate-questions of http_server.py: the tool never raises
ServerGenerateQuestions(user_history, current_level, question_count, gemini) ==
    [kind |-> "mapping",
     questions |-> generate_adaptive_questions(user_history, current_level,
                                               question_count, gemini)]

\* {"error": ...} of the client
QuestionsError == [kind |-> "error", questions |-> <<>>]

\* question_count in the payload of the client
ClientQuestionCount == 15

\* MCPDevOpsClient.generate_personalized_questions.  transport: "ok",
\* "exception" (the post raises or times out) or "status" (not 200)
ClientGenerateQuestions(skill_level, user_history, transport, gemini) ==
    IF transport = "ok"
    THEN ServerGenerateQuestions(user_history, skill_level, ClientQuestionCount, gemini)
    ELSE QuestionsError

\* what failed in the generation of questions by the AI model
AiFailure(user_history, transport, gemini) ==
    IF transport # "ok" THEN transport
    ELSE IF WeakAreas(user_history).raised THEN "tool"
    ELSE IF gemini.kind = "raises" THEN "model"
    ELSE IF gemini.kind = "absent" THEN "no_model"
    ELSE "none"

\* the parameters of MCPDevOpsClient.generate_personalized_questions after
\* self, and those without a default
ClientParameters == {"user_id", "skill_level", "user_history", "focus_areas"}
ClientRequired == {"user_id", "skill_level", "user_history"}

\* a call with these keyword arguments binds; otherwise it raises TypeError
Binds(keywords) == keywords \subseteq ClientParameters /\ ClientRequired \subseteq keywords

\* the lists of base_questions, each question named by its id
base_questions ==
    [novice |-> <<[id |-> "collab_basic_1", category |-> "Collaboration"],
                  [id |-> "auto_basic_1", category |-> "Automation"]>>,
     intermediate |-> <<[id |-> "culture_int_1", category |-> "Culture"],
                        [id |-> "monitor_int_1", category |-> "Monitoring"]>>,
     advanced |-> <<[id |-> "delivery_adv_1", category |-> "Delivery"]>>]

\* lines 808-815: the same scan as in the tool
FallbackWeakAreas(history) ==
    IF Len(history) = 0 THEN [raised |-> FALSE, value |-> <<>>]
    ELSE LET items == history[1].category_scores
             weak == SelectSeq(items, LAMBDA item :
                         item.score.t = "num" /\ item.score.v < 60 * Unit)
         IN [raised |-> \E i \in 1..Len(items) : items[i].score.t # "num",
             value |-> [i \in 1..Len(weak) |-> LowerCase(weak[i].key)]]

_generate_fallback_questions(level, history) ==
    LET weak_areas == FallbackWeakAreas(history)
        questions == DictGet(base_questions, level, base_questions["intermediate"])
        focused == IF \E i \in 1..Len(weak_areas.value) :
                          weak_areas.value[i] = "collaboration"
                   THEN Append(questions, [id |-> "collab_focused_1",
                                           category |-> "Collaboration"])
                   ELSE questions
    IN [raised |-> weak_areas.raised, value |-> Take(focused, 15)]

\* GET /generate-questions/{user_id} after the history query.  The call of
\* the client passes current_level, which is no parameter of the method,
\* and passes no skill_level.
GetGenerateQuestions(user_history, transport, gemini) ==
    LET current_level == IF Len(user_history) > 0
                         THEN LowerCase(user_history[1].maturity_level)
                         ELSE "intermediate"
        questions_result ==
            ClientGenerateQuestions(current_level, user_history, transport, gemini)
        fallback == _generate_fallback_questions(current_level, user_history)
    IN IF ~Binds({"user_id", "user_history", "current_level"}) THEN Http500
       ELSE IF questions_result.kind = "empty"
       THEN \* if not questions_result: no answer of the client is falsy
            IF fallback.raised THEN Http500
            ELSE [status |-> "ok", personalized |-> TRUE, questions |-> fallback.value]
       ELSE [status |-> "ok", personalized |-> TRUE,
             questions |-> questions_result.questions]

\* the ids of default_questions
_get_default_questions ==
    [status |-> "ok", personalized |-> FALSE,
     questions |-> <<[id |-> "collaboration_tools", category |-> "Collaboration"],
                     [id |-> "ci_cd_pipeline", category |-> "Automation"],
                     [id |-> "monitoring_alerting", category |-> "Monitoring"]>>]

\* POST /generate-personalized-questions after the history query
PostGenerateQuestions(user_history, skill_level, transport, gemini) ==
    LET personalized_result ==
            ClientGenerateQuestions(skill_level, user_history, transport, gemini)
    IN IF ~Binds({"user_id", "skill_level", "user_history", "focus_areas"}) THEN Http500
       ELSE IF personalized_result.kind = "error" THEN _get_default_questions
       ELSE [status |-> "ok", personalized |-> TRUE,
             questions |-> personalized_result.questions]

-----------------------------------------------------------------------------
(* _calculate_improvement_trend                                            *)

\* current_score is a number; the overall_score of a history entry is what
\* the row holds.  Subtracting None or a str from a float raises TypeError.
_calculate_improvement_trend_inclusive(user_history, current_score) ==
    IF Len(user_history) = 0
    THEN [raised |-> FALSE, value |-> [trend |-> "baseline"]]
    ELSE LET last_score == user_history[1].overall_score
             improvement == current_score - last_score.v
         IN IF last_score.t # "num"
            THEN [raised |-> TRUE, value |-> [trend |-> "TypeError"]]
            ELSE IF improvement >= 5 * Unit
            THEN [raised |-> FALSE,
                  value |-> [trend |-> "improving",
                             improvement_points |-> Round1(improvement)]]
            ELSE IF improvement <= -5 * Unit
            THEN [raised |-> FALSE,
                  value |-> [trend |-> "declining",
                             improvement_points |-> Round1(improvement)]]
            ELSE [raised |-> FALSE,
                  value |-> [trend |-> "stable",
                             improvement_points |-> Round1(improvement)]]
_calculate_improvement_trend(user_history, current_score) ==
    IF Len(user_history) = 0
    THEN [raised |-> FALSE, value |-> [trend |-> "baseline"]]
    ELSE LET last_score == user_history[1].overall_score
             improvement == current_score - last_score.v
         IN IF last_score.t # "num"
            THEN [raised |-> TRUE, value |-> [trend |-> "TypeError"]]
            ELSE IF improvement > 5 * Unit
            THEN [raised |-> FALSE,
                  value |-> [trend |-> "improving",
                             improvement_points |-> Round1(improvement)]]
            ELSE IF improvement < -5 * Unit
            THEN [raised |-> FALSE,
                  value |-> [trend |-> "declining",
                             improvement_points |-> Round1(improvement)]]
            ELSE [raised |-> FALSE,
                  value |-> [trend |-> "stable",
                             improvement_points |-> Round1(improvement)]]

-----------------------------------------------------------------------------
(* State of the request handler when no request exists                     *)

NoResult == [status |-> "none"]

Users == {"u1", "u2"}

\* pc: idle, await_mcp (suspended in the await of line 411), done
\* ai_calls, fallback_entries and faults record what happened in the request,
\* alone whether no other request was in progress when it started
IdleCall ==
    [pc |-> "idle", user_id |-> "", responses |-> <<>>, assessment_id |-> 0,
     user_history |-> <<>>, mcp_result |-> [kind |-> "none"], ai_calls |-> 0,
     fallback_entries |-> 0, faults |-> {}, alone |-> TRUE, result |-> NoResult]

\* request slots: one request at a time, or two that run concurrently
CallIds == {"a"}
ConcurrentCallIds == {"a", "b"}

NoArg == [op |-> "none"]
NoRet == [op |-> "none"]

\* no response yet; sequential: no request of the user has overlapped
\* another request so far
NothingReturned ==
    [user \in Users |-> [status |-> "none", overall_score |-> 0, sequential |-> TRUE]]

HandlerIdle ==
    /\ schema = "submit"
    /\ store = <<>>
    /\ next_id = 1
    /\ calls = [c \in CallIds |-> IdleCall]
    /\ returned = NothingReturned

PureIdle ==
    /\ arg = NoArg
    /\ ret = NoRet

-----------------------------------------------------------------------------
(* SpecScore: the two scorers applied to every small responses mapping     *)

ValidRatings == 1..5

\* a question id that is absent from question_categories
UnknownQuestion == "team_size"

QuestionIds == DOMAIN question_categories \cup {UnknownQuestion}

\* the mappings of at most n question ids to a rating of 1..5
ResponseSets(n) ==
    UNION {[qs -> ValidRatings] : qs \in {s \in SUBSET QuestionIds : Cardinality(s) <= n}}

InitScore ==
    /\ HandlerIdle
    /\ arg \in ResponseSets(MaxAnswers)
    /\ ret = NoRet

\* the scoring part of _fallback_assessment and what it returns of it
ScoreFallback ==
    /\ ret = NoRet
    /\ LET scored == FallbackScore(arg)
       IN ret' = [op |-> "fallback",
                  category_scores |-> scored.category_scores,
                  overall_score |-> scored.overall_score,
                  returned_overall_score |-> Round1(scored.overall_score),
                  maturity_level |-> scored.maturity_level]
    /\ UNCHANGED <<schema, store, next_id, calls, returned, arg>>

\* devops_culture_assessment on the same responses
ScoreTool ==
    /\ ret = NoRet
    /\ LET result == devops_culture_assessment(arg)
       IN ret' = [op |-> "tool",
                  category_scores |-> result.dimensional_scores,
                  overall_score |-> result.maturity_score.v,
                  returned_overall_score |-> Round1(result.maturity_score.v),
                  maturity_level |-> result.maturity_level]
    /\ UNCHANGED <<schema, store, next_id, calls, returned, arg>>

\* the two template generators of the tool on the scores it reads from the
\* same responses
Recommend ==
    /\ ret = NoRet
    /\ LET result == devops_culture_assessment(arg)
           scores == [dim \in DOMAIN result.dimensional_scores |->
                         result.dimensional_scores[dim] \div Unit]
       IN ret' = [op |-> "recommendations",
                  scores |-> scores,
                  basic |-> result.recommendations,
                  fallback |-> generate_fallback_recommendations(scores)]
    /\ UNCHANGED <<schema, store, next_id, calls, returned, arg>>

NextScore == ScoreFallback \/ ScoreTool \/ Recommend

SpecScore == InitScore /\ [][NextScore]_vars

-----------------------------------------------------------------------------
(* SpecClassify: the maturity classifier on every score of [0, 100]        *)

InitClassify ==
    /\ HandlerIdle
    /\ arg \in 0..(100 * Unit)
    /\ ret = NoRet

Classify ==
    /\ ret = NoRet
    /\ ret' = [op |-> "classify", maturity_level |-> FallbackMaturityLevel(arg)]
    /\ UNCHANGED <<schema, store, next_id, calls, returned, arg>>

NextClassify == Classify

SpecClassify == InitClassify /\ [][NextClassify]_vars

-----------------------------------------------------------------------------
(* SpecTrend: _calculate_improvement_trend on short histories              *)

\* scores 0, 5, .., 100
TrendScores == {5 * k * Unit : k \in 0..20}

\* what the overall_score column of a row can hold
StoredScores == {Num(v) : v \in TrendScores} \cup {NoneScore}

Histories(n) ==
    UNION {[1..len -> [overall_score : StoredScores]] : len \in 0..n}

InitTrend ==
    /\ HandlerIdle
    /\ arg \in [user_history : Histories(MaxHist), current_score : TrendScores]
    /\ ret = NoRet

Trend ==
    /\ ret = NoRet
    /\ LET t == _calculate_improvement_trend(arg.user_history, arg.current_score)
       IN ret' = [op |-> "trend", raised |-> t.raised, value |-> t.value]
    /\ UNCHANGED <<schema, store, next_id, calls, returned, arg>>

NextTrend == Trend

SpecTrend == InitTrend /\ [][NextTrend]_vars

-----------------------------------------------------------------------------
(* Storage: the devops_assessments table                                   *)

\* LIMIT 5 of the history query
HistoryLimit == 5

\* created_at DATETIME DEFAULT CURRENT_TIMESTAMP: the second in which a row
\* is inserted.  The clock does not run backwards, and only the order of
\* the timestamps matters: a new row falls into the second of the newest
\* row or into a later one.
Timestamps(st) ==
    IF Len(st) = 0 THEN {1}
    ELSE {st[Len(st)].created_at, st[Len(st)].created_at + 1}

\* the orders in which ORDER BY created_at DESC can deliver the rows idx of
\* st: newest second first, rows of the same second in any order
DescendingOrders(st, idx) ==
    {p \in [1..Cardinality(idx) -> idx] :
        \A i, j \in 1..Cardinality(idx) :
            i < j => /\ p[i] # p[j]
                     /\ st[p[i]].created_at >= st[p[j]].created_at}

\* SELECT ... WHERE user_id = ? ORDER BY created_at DESC LIMIT limit, and the
\* dicts the handler builds from the rows: every list the query can yield
SelectRecent(st, user, limit) ==
    LET idx == {i \in 1..Len(st) : st[i].user_id = user}
        n == Cardinality(idx)
        m == IF n < limit THEN n ELSE limit
    IN {[i \in 1..m |->
            [assessment_id |-> st[p[i]].assessment_id,
             overall_score |-> st[p[i]].overall_score,
             maturity_level |-> st[p[i]].maturity_level,
             category_scores |-> st[p[i]].category_scores]] :
        p \in DescendingOrders(st, idx)}

\* the history query of submit_assessment
SelectHistory(st, user) == SelectRecent(st, user, HistoryLimit)

\* INSERT INTO devops_assessments (assessment_id, user_id, ...) succeeds when
\* the table has these columns and the primary key is new
CanInsert_any_key(st, sch, assessment_id) == sch = "submit"
CanInsert(st, sch, assessment_id) ==
    /\ sch = "submit"
    /\ \A i \in 1..Len(st) : st[i].assessment_id # assessment_id

Row(assessment_id, user, overall_score, maturity_level, category_scores, responses, fallback_mode) ==
    [assessment_id |-> assessment_id,
     user_id |-> user,
     overall_score |-> overall_score,
     maturity_level |-> maturity_level,
     category_scores |-> category_scores,
     responses |-> responses,
     fallback_mode |-> fallback_mode,
     created_at |-> 0]

\* INSERT INTO devops_assessments ... and commit, in the second now
InsertRow_replace(st, row, now) ==
    Append(SelectSeq(st, LAMBDA old : old.user_id # row.user_id),
           [row EXCEPT !.created_at = now])
InsertRow(st, row, now) == Append(st, [row EXCEPT !.created_at = now])

-----------------------------------------------------------------------------
(* _fallback_assessment                                                    *)

\* fault: "none", "connect" (get_db_connection raises) or "insert" (execute
\* or commit raises).  strengths and the other canned lists are assigned
\* after the connection is opened, so the return statement raises
\* UnboundLocalError when it was not; the trend raises TypeError on a
\* history row without a numeric score.
_fallback_assessment(st, sch, user, responses, assessment_id, user_history, fault, now) ==
    LET scored == FallbackScore(responses)
        connected == fault # "connect"
        inserted == connected /\ fault # "insert" /\ CanInsert(st, sch, assessment_id)
        row == Row(assessment_id, user, Num(scored.overall_score),
                   scored.maturity_level, scored.category_scores, responses, TRUE)
        trend == _calculate_improvement_trend(user_history, scored.overall_score)
    IN [store |-> IF inserted THEN InsertRow(st, row, now) ELSE st,
        raised |-> ~connected \/ trend.raised,
        result |->
            [status |-> "ok",
             assessment_id |-> assessment_id,
             overall_score |-> Round1(scored.overall_score),
             maturity_level |-> scored.maturity_level,
             category_scores |-> scored.category_scores,
             strengths |-> <<"Team collaboration", "Basic automation">>,
             improvement_areas |-> <<"Advanced monitoring", "Cultural transformation">>,
             ai_recommendations |-> <<"Implement CI/CD pipeline", "Enhance team communication">>,
             mcp_powered |-> FALSE,
             improvement_trend |-> trend.value]]

\* except Exception as db_error: return await _fallback_assessment(...);
\* what the fallback raises here reaches the outer except.  ai_calls: the
\* calls to mcp_client that the handler makes.
StorageErrorHandler_retry(st, sch, user, responses, assessment_id, user_history, fault, now) ==
    LET fb == _fallback_assessment(st, sch, user, responses, assessment_id,
                                   user_history, fault, now)
    IN [store |-> fb.store,
        result |-> IF fb.raised THEN Http500 ELSE fb.result,
        ai_calls |-> 1]
StorageErrorHandler(st, sch, user, responses, assessment_id, user_history, fault, now) ==
    LET fb == _fallback_assessment(st, sch, user, responses, assessment_id,
                                   user_history, fault, now)
    IN [store |-> fb.store,
        result |-> IF fb.raised THEN Http500 ELSE fb.result,
        ai_calls |-> 0]

\* line 419: the fallback called inside the inner try; what it raises is
\* caught by the storage-error handler, which calls it again
FallbackInTry(st, sch, user, responses, assessment_id, user_history, fault1, fault2, now) ==
    LET fb == _fallback_assessment(st, sch, user, responses, assessment_id,
                                   user_history, fault1, now)
        again == StorageErrorHandler(fb.store, sch, user, responses, assessment_id,
                                     user_history, fault2, now)
    IN IF fb.raised
       THEN [store |-> again.store, result |-> again.result,
             fallback_entries |-> 2, ai_calls |-> again.ai_calls]
       ELSE [store |-> fb.store, result |-> fb.result,
             fallback_entries |-> 1, ai_calls |-> 0]

-----------------------------------------------------------------------------
(* MCPDevOpsClient.assess_devops_culture                                   *)

\* {"error": ...}: the client caught an exception or a timeout, the server
\* answered another status than 200, or the tool returned its error mapping
ErrorReply ==
    [kind |-> "error", has_score |-> FALSE, maturity_score |-> NoneScore,
     has_level |-> FALSE, maturity_level |-> "",
     dimensional_scores |-> EmptyDict, strengths |-> <<>>,
     improvement_areas |-> <<>>, recommendations |-> <<>>]

\* a 200 answer whose JSON body is a list
ListReply == [ErrorReply EXCEPT !.kind = "list"]

\* a 200 answer whose JSON body is a mapping with no other key than
\* maturity_score
ScoreOnlyReply(score) ==
    [ErrorReply EXCEPT !.kind = "mapping", !.has_score = TRUE, !.maturity_score = score]

\* a 200 answer whose JSON body is a mapping without maturity_score
NoScoreReply == [ErrorReply EXCEPT !.kind = "mapping"]

\* maturity_score values of a server that does not keep the contract
OddScores == {NoneScore, StrScore, Num(150 * Unit), Num(-10 * Unit)}

\* what response.json() or the except branch can hand to the handler
McpReplies(responses) ==
    {ErrorReply, ListReply, NoScoreReply, devops_culture_assessment(responses)}
        \cup {ScoreOnlyReply(score) : score \in OddScores}

-----------------------------------------------------------------------------
(* submit_assessment                                                       *)

\* scenario 1 of the specification: one rating per category
ExampleResponses ==
    [collaboration_tools |-> 3, ci_cd_pipeline |-> 2, monitoring_alerting |-> 4,
     psychological_safety |-> 3, deployment_frequency |-> 2]

\* the top rating on the five questions the tool reads
TopResponses ==
    [collaboration_tools |-> 5, ci_cd_pipeline |-> 5, monitoring_alerting |-> 5,
     psychological_safety |-> 5, deployment_frequency |-> 5]

\* ratings outside 1..5; Dict[str, int] accepts every int
OutOfScaleResponses == [collaboration_tools |-> 7, ci_cd_pipeline |-> 0]

Submissions == {ExampleResponses, TopResponses, OutOfScaleResponses}

Faults == {"none", "connect", "insert"}

\* the storage failure of one site, as an element of call.faults
FaultSet(site, fault) == IF fault = "none" THEN {} ELSE {site \o fault}

\* lines 347-415: up to the await of the MCP call.  history_fault: "none",
\* "connect" or "select".  The SELECT also fails on a table that lacks the
\* columns of the query.  A failure here runs the storage-error handler.
Submit(c, user, responses, history_fault, fallback_fault, now) ==
    /\ calls[c].pc = "idle"
    /\ next_id' = next_id + 1
    /\ LET assessment_id == next_id
           started == [IdleCall EXCEPT
                          !.user_id = user, !.responses = responses,
                          !.assessment_id = assessment_id,
                          !.alone = \A d \in DOMAIN calls \ {c} : calls[d].pc = "idle"]
       IN IF history_fault = "none" /\ schema = "submit"
          THEN /\ fallback_fault = "none"
               /\ \E user_history \in SelectHistory(store, user) :
                      calls' = [calls EXCEPT ![c] =
                          [started EXCEPT !.pc = "await_mcp",
                                          !.user_history = user_history,
                                          !.ai_calls = 1]]
               /\ store' = store
          ELSE \E h \in {StorageErrorHandler(store, schema, user, responses,
                                                assessment_id, <<>>, fallback_fault, now)} :
                  /\ calls' = [calls EXCEPT ![c] =
                         [started EXCEPT
                             !.pc = "done",
                             !.fallback_entries = 1,
                             !.ai_calls = h.ai_calls,
                             !.faults = FaultSet("history_", history_fault)
                                            \cup FaultSet("fallback_", fallback_fault),
                             !.result = h.result]]
                  /\ store' = h.store
    /\ UNCHANGED <<schema, returned, arg, ret>>

\* lines 411-492: from the answer of the MCP call to the return
McpReply(c, reply, insert_fault, fallback_fault1, fallback_fault2, now) ==
    /\ calls[c].pc = "await_mcp"
    /\ LET call == calls[c]
           replied == [call EXCEPT !.pc = "done", !.mcp_result = reply]
       IN IF reply.kind = "error"
          THEN \* if "error" in mcp_result: return await _fallback_assessment(...)
               \E fb \in {FallbackInTry(store, schema, call.user_id, call.responses,
                                           call.assessment_id, call.user_history,
                                           fallback_fault1, fallback_fault2, now)} :
                  /\ insert_fault = "none"
                  /\ fb.fallback_entries = 1 => fallback_fault2 = "none"
                  /\ store' = fb.store
                  /\ calls' = [calls EXCEPT ![c] =
                         [replied EXCEPT
                             !.fallback_entries = fb.fallback_entries,
                             !.ai_calls = @ + fb.ai_calls,
                             !.faults = FaultSet("fallback_", fallback_fault1)
                                            \cup FaultSet("fallback_", fallback_fault2),
                             !.result = fb.result]]
          ELSE IF reply.kind = "list" \/ insert_fault # "none"
                  \/ ~CanInsert(store, schema, call.assessment_id)
          THEN \* mcp_result.get raises AttributeError, or the insert fails
               \E h \in {StorageErrorHandler(store, schema, call.user_id, call.responses,
                                                call.assessment_id, call.user_history,
                                                fallback_fault1, now)} :
                  /\ fallback_fault2 = "none"
                  /\ reply.kind = "list" => insert_fault = "none"
                  /\ store' = h.store
                  /\ calls' = [calls EXCEPT ![c] =
                         [replied EXCEPT
                             !.fallback_entries = 1,
                             !.ai_calls = @ + h.ai_calls,
                             !.faults = FaultSet("insert_", insert_fault)
                                            \cup FaultSet("fallback_", fallback_fault1),
                             !.result = h.result]]
          ELSE \* the AI-augmented path
               LET overall_score == IF reply.has_score THEN reply.maturity_score ELSE Num(0)
                   maturity_level == IF reply.has_level THEN reply.maturity_level ELSE "Novice"
                   row == Row(call.assessment_id, call.user_id, overall_score,
                              maturity_level, reply.dimensional_scores, call.responses,
                              FALSE)
                   trend == _calculate_improvement_trend(call.user_history, overall_score.v)
                   \* round(overall_score, 1) raises TypeError on None and on a str
                   raised == overall_score.t # "num" \/ trend.raised
               IN /\ fallback_fault1 = "none"
                  /\ fallback_fault2 = "none"
                  /\ store' = InsertRow(store, row, now)
                  /\ calls' = [calls EXCEPT ![c] =
                         [replied EXCEPT !.result =
                             IF raised THEN Http500
                             ELSE [status |-> "ok",
                                   assessment_id |-> call.assessment_id,
                                   overall_score |-> Round1(overall_score.v),
                                   maturity_level |-> maturity_level,
                                   category_scores |-> reply.dimensional_scores,
                                   strengths |-> reply.strengths,
                                   improvement_areas |-> reply.improvement_areas,
                                   ai_recommendations |-> reply.recommendations,
                                   mcp_powered |-> TRUE,
                                   improvement_trend |-> trend.value]]]
    /\ UNCHANGED <<schema, next_id, returned, arg, ret>>

\* the response is sent; the slot takes the next request
Finish(c) ==
    /\ calls[c].pc = "done"
    /\ LET call == calls[c]
           sequential == returned[call.user_id].sequential /\ call.alone
       IN returned' = [returned EXCEPT ![call.user_id] =
              IF call.result.status = "ok"
              THEN [status |-> "ok",
                    overall_score |-> call.result.overall_score,
                    sequential |-> sequential]
              ELSE [@ EXCEPT !.sequential = sequential]]
    /\ calls' = [calls EXCEPT ![c] = IdleCall]
    /\ UNCHANGED <<schema, store, next_id, arg, ret>>

\* the table was created by an earlier submit_assessment, or by
\* init_assessment_db at module load (columns id, team_id, ...)
Init ==
    /\ schema \in {"submit", "legacy"}
    /\ store = <<>>
    /\ next_id = 1
    /\ calls = [c \in CallIds |-> IdleCall]
    /\ returned = NothingReturned
    /\ PureIdle

Next ==
    \E c \in DOMAIN calls :
        \/ /\ calls[c].pc = "idle"
           /\ next_id <= MaxSubmissions
           /\ \E user \in Users, responses \in Submissions,
                 history_fault \in {"none", "connect", "select"}, fallback_fault \in Faults,
                 now \in Timestamps(store) :
                  Submit(c, user, responses, history_fault, fallback_fault, now)
        \/ /\ calls[c].pc = "await_mcp"
           /\ \E reply \in McpReplies(calls[c].responses),
                 insert_fault \in Faults, fallback_fault1 \in Faults, fallback_fault2 \in Faults,
                 now \in Timestamps(store) :
                  McpReply(c, reply, insert_fault, fallback_fault1, fallback_fault2, now)
        \/ Finish(c)

Spec == Init /\ [][Next]_vars

-----------------------------------------------------------------------------
(* SpecRecords: submissions, retrieval and question requests on one table  *)

\* the keys of a stored category_scores in the order of the dict literals
DictKeyOrder ==
    <<"Collaboration", "Automation", "Monitoring", "Culture", "Delivery">> \o ScoreKeys

\* json.loads(row[..]).items()
Items(category_scores) ==
    LET keys == SelectSeq(DictKeyOrder, LAMBDA key : key \in DOMAIN category_scores)
    IN [i \in 1..Len(keys) |->
           [key |-> keys[i], score |-> Num(category_scores[keys[i]])]]

\* LIMIT 3 of the history queries of the question endpoints
QuestionHistoryLimit == 3

\* the user_history list built from the rows of the history query
QuestionHistoryOf(rows) ==
    [i \in 1..Len(rows) |->
        [maturity_level |-> rows[i].maturity_level,
         category_scores |-> Items(rows[i].category_scores)]]

\* the responses column of the records of the history query, latest first
StoredResponses(st, rows) ==
    [i \in 1..Len(rows) |->
        st[CHOOSE j \in 1..Len(st) :
               st[j].assessment_id = rows[i].assessment_id].responses]

\* GET /assessment-results/{assessment_id}: the HTTPException(404) is raised
\* inside the try and leaves the handler as a 500
get_assessment_results(st, assessment_id) ==
    LET found == {i \in 1..Len(st) : st[i].assessment_id = assessment_id}
        result == st[CHOOSE i \in found : TRUE]
    IN IF found = {} THEN Http500
       ELSE [status |-> "ok",
             assessment_id |-> result.assessment_id,
             user_id |-> result.user_id,
             overall_score |-> result.overall_score,
             maturity_level |-> result.maturity_level,
             category_scores |-> result.category_scores]

GetAssessmentResults(assessment_id) ==
    /\ ret' = [op |-> "get_assessment_results",
               result |-> get_assessment_results(store, assessment_id)]
    /\ UNCHANGED <<schema, store, next_id, calls, returned, arg>>

\* what ret keeps of the answer of a question endpoint
QuestionsSummary(result) ==
    IF result.status = "ok"
    THEN [status |-> "ok", personalized |-> result.personalized,
          question_count |-> Len(result.questions)]
    ELSE result

\* GET /generate-questions/{user_id}
GetQuestionsOf(user, transport, gemini) ==
    /\ \E rows \in SelectRecent(store, user, QuestionHistoryLimit) :
       \E user_history \in {QuestionHistoryOf(rows)} :
           ret' = [op |-> "get_questions_of",
                   submitted |-> StoredResponses(store, rows),
                   selector_ran |-> FALSE,
                   weak_areas |-> <<>>,
                   failure |-> AiFailure(user_history, transport, gemini),
                   result |-> QuestionsSummary(
                       GetGenerateQuestions(user_history, transport, gemini))]
    /\ UNCHANGED <<schema, store, next_id, calls, returned, arg>>

\* POST /generate-personalized-questions
PostQuestionsOf(user, skill_level, transport, gemini) ==
    /\ \E rows \in SelectRecent(store, user, QuestionHistoryLimit) :
       \E user_history \in {QuestionHistoryOf(rows)} :
           ret' = [op |-> "post_questions_of",
                   submitted |-> StoredResponses(store, rows),
                   selector_ran |-> transport = "ok",
                   weak_areas |-> IF transport = "ok"
                                  THEN WeakAreas(user_history).value ELSE <<>>,
                   failure |-> AiFailure(user_history, transport, gemini),
                   result |-> QuestionsSummary(
                       PostGenerateQuestions(user_history, skill_level,
                                             transport, gemini))]
    /\ UNCHANGED <<schema, store, next_id, calls, returned, arg>>

RecordReplies(responses) ==
    {ErrorReply, devops_culture_assessment(responses), ScoreOnlyReply(NoneScore)}

InitRecords ==
    /\ HandlerIdle
    /\ PureIdle

NextRecords ==
    \/ \E c \in DOMAIN calls :
           \/ /\ calls[c].pc = "idle"
              /\ next_id <= MaxSubmissions
              /\ \E user \in Users, history_fault \in {"none", "select"},
                    fallback_fault \in {"none", "insert"}, now \in Timestamps(store),
                    responses \in {ExampleResponses, TopResponses} :
                     Submit(c, user, responses, history_fault, fallback_fault, now)
           \/ /\ calls[c].pc = "await_mcp"
              /\ \E reply \in RecordReplies(calls[c].responses),
                    insert_fault \in {"none", "insert"}, now \in Timestamps(store) :
                     McpReply(c, reply, insert_fault, "none", "none", now)
           \/ Finish(c)
    \/ \E assessment_id \in 1..next_id : GetAssessmentResults(assessment_id)
    \/ \E user \in Users, transport \in {"ok", "exception"} :
           GetQuestionsOf(user, transport, [kind |-> "absent", questions |-> <<>>])
    \/ \E user \in Users, transport \in {"ok", "exception"} :
           PostQuestionsOf(user, "advanced", transport,
                           [kind |-> "absent", questions |-> <<>>])

SpecRecords == InitRecords /\ [][NextRecords]_vars

-----------------------------------------------------------------------------
(* SpecQuestions: the question selector and the question endpoints         *)

\* keys of a category_scores: two spellings of one category, a category and
\* its abbreviation, and a category without bank question
ScoreEntryKeys == {"Culture", "culture", "Automation", "Auto", "Security"}

\* scores at both sides of the weak threshold
ThresholdScores == {Num(59 * Unit), Num(60 * Unit)}

\* the category_scores of at most n entries, as the list of their items
ScoreItems(n) ==
    {items \in UNION {[1..len -> [key : ScoreEntryKeys, score : ThresholdScores]] :
                         len \in 0..n} :
        \A i, j \in 1..Len(items) : i < j => items[i].key # items[j].key}

HistoryEntry(items) == [maturity_level |-> "Advanced", category_scores |-> items]

\* an entry whose category_scores holds null for a category
BrokenEntry == HistoryEntry(<<[key |-> "Culture", score |-> NoneScore]>>)

\* an older entry, weak in a category of its own
OlderEntry == HistoryEntry(<<[key |-> "Delivery", score |-> Num(10 * Unit)]>>)

QuestionHistories ==
    LET latest == {HistoryEntry(items) : items \in ScoreItems(MaxScoreEntries)}
                      \cup {BrokenEntry}
    IN {<<>>} \cup {<<entry>> : entry \in latest}
             \cup {<<entry, OlderEntry>> : entry \in latest}

QuestionCounts == (-2..(2 * MaxScoreEntries + 1)) \cup {15, 16}

QuestionLevels == {"advanced", "Novice"}

\* what the model can answer
AiQuestion(i) ==
    [category |-> "Culture", focus |-> "generated", id |-> i,
     difficulty |-> "advanced", personalized |-> TRUE]

GeminiOutcomes ==
    {[kind |-> "absent", questions |-> <<>>], [kind |-> "raises", questions |-> <<>>]}
        \cup {[kind |-> "answers", questions |-> [i \in 1..n |-> AiQuestion(i)]] :
                 n \in {0, MaxAiQuestions}}

Transports == {"ok", "exception", "status"}

InitQuestions ==
    /\ HandlerIdle
    /\ arg \in [user_history : QuestionHistories, current_level : QuestionLevels,
                 question_count : QuestionCounts]
    /\ ret = NoRet

FindWeakAreas ==
    /\ ret = NoRet
    /\ ret' = [op |-> "weak_areas",
               tool |-> WeakAreas(arg.user_history),
               backend |-> FallbackWeakAreas(arg.user_history)]
    /\ UNCHANGED <<schema, store, next_id, calls, returned, arg>>

GenerateAdaptive(gemini) ==
    /\ ret = NoRet
    /\ ret' = [op |-> "generate_adaptive_questions",
               gemini |-> gemini.kind,
               questions |-> generate_adaptive_questions(
                                 arg.user_history, arg.current_level,
                                 arg.question_count, gemini)]
    /\ UNCHANGED <<schema, store, next_id, calls, returned, arg>>

GetQuestions(transport, gemini) ==
    /\ ret = NoRet
    /\ arg.question_count = ClientQuestionCount
    /\ ret' = [op |-> "get_questions",
               failure |-> AiFailure(arg.user_history, transport, gemini),
               result |-> GetGenerateQuestions(arg.user_history, transport, gemini)]
    /\ UNCHANGED <<schema, store, next_id, calls, returned, arg>>

PostQuestions(transport, gemini) ==
    /\ ret = NoRet
    /\ arg.question_count = ClientQuestionCount
    /\ ret' = [op |-> "post_questions",
               failure |-> AiFailure(arg.user_history, transport, gemini),
               result |-> PostGenerateQuestions(arg.user_history, arg.current_level,
                                                transport, gemini)]
    /\ UNCHANGED <<schema, store, next_id, calls, returned, arg>>

\* levels handed to _generate_fallback_questions: the keys of base_questions
\* and two maturity levels without an entry
FallbackLevels == {"novice", "intermediate", "advanced", "developing", "expert"}

GenerateFallback(level) ==
    /\ ret = NoRet
    /\ LET questions == _generate_fallback_questions(level, arg.user_history)
       IN ret' = [op |-> "fallback_questions", level |-> level,
                  raised |-> questions.raised, questions |-> questions.value]
    /\ UNCHANGED <<schema, store, next_id, calls, returned, arg>>

NextQuestions ==
    \/ FindWeakAreas
    \/ \E level \in FallbackLevels : GenerateFallback(level)
    \/ \E gemini \in GeminiOutcomes : GenerateAdaptive(gemini)
    \/ \E transport \in Transports, gemini \in GeminiOutcomes :
           GetQuestions(transport, gemini)
    \/ \E transport \in Transports, gemini \in GeminiOutcomes :
           PostQuestions(transport, gemini)

SpecQuestions == InitQuestions /\ [][NextQuestions]_vars

-----------------------------------------------------------------------------
(* SpecHistory: repeated and concurrent submissions, no storage failure    *)

\* answers of the assessment service for a submission: a failure, the
\* answer of the tool, and two other scores within [0, 100]
SequenceReplies(responses) ==
    {ErrorReply, devops_culture_assessment(responses),
     ScoreOnlyReply(Num(52 * Unit)), ScoreOnlyReply(Num(50 * Unit))}

InitHistory ==
    /\ schema = "submit"
    /\ store = <<>>
    /\ next_id = 1
    /\ calls = [c \in ConcurrentCallIds |-> IdleCall]
    /\ returned = NothingReturned
    /\ PureIdle

NextHistory ==
    \E c \in DOMAIN calls :
        \/ /\ calls[c].pc = "idle"
           /\ next_id <= MaxSequence
           /\ \E user \in Users, now \in Timestamps(store) :
                  Submit(c, user, ExampleResponses, "none", "none", now)
        \/ /\ calls[c].pc = "await_mcp"
           /\ \E reply \in SequenceReplies(calls[c].responses),
                 now \in Timestamps(store) :
                  McpReply(c, reply, "none", "none", "none", now)
        \/ Finish(c)

SpecHistory == InitHistory /\ [][NextHistory]_vars

-----------------------------------------------------------------------------
(* Properties of the scorers, the classifier and the trend function        *)

InRange(x) == 0 <= x /\ x <= 100 * Unit

\* C6: for ratings in 1..5 every category score and the overall score that
\* the fallback scorer or the MCP assessment tool yields lies in [0, 100]
C6_ScoresWithinBounds ==
    ret.op \in {"fallback", "tool"} =>
        /\ \A category \in DOMAIN ret.category_scores :
               InRange(ret.category_scores[category])
        /\ InRange(ret.overall_score)
        /\ InRange(ret.returned_overall_score)

\* a category at the top of the range, from the fallback scorer
C6_Witness ==
    /\ ret.op = "fallback"
    /\ \E category \in DOMAIN ret.category_scores :
           ret.category_scores[category] = 100 * Unit

\* the reference of C7: the mean of (rating - 1) * 25 over the answered
\* questions of a category, 0 for a category with none
RefCategoryScore(responses, category) ==
    LET answered == {q \in DOMAIN responses \cap DOMAIN question_categories :
                        question_categories[q] = category}
        points == [q \in answered |-> (responses[q] - 1) * 25 * Unit]
    IN IF answered = {} THEN 0
       ELSE SumOver(points, answered) \div Cardinality(answered)

RefOverallScore(responses) ==
    LET by_category == [category \in CategoryNames |->
                           RefCategoryScore(responses, category)]
    IN SumOver(by_category, CategoryNames) \div 5

ExampleCategoryScores ==
    [Collaboration |-> 50 * Unit, Automation |-> 25 * Unit, Monitoring |-> 75 * Unit,
     Culture |-> 50 * Unit, Delivery |-> 25 * Unit]

\* C7: the fallback scorer equals the reference: per category the mean of
\* (rating - 1) * 25 over the responses mapped to it, 0 without any, unknown
\* question ids ignored, overall the unweighted mean of the five categories;
\* ratings 3,2,4,3,2 give 50,25,75,50,25 and 45
C7_FallbackScorerIsReference ==
    /\ ret.op = "fallback" =>
        /\ DOMAIN ret.category_scores = CategoryNames
        /\ \A category \in CategoryNames :
               ret.category_scores[category] = RefCategoryScore(arg, category)
        /\ ret.overall_score = RefOverallScore(arg)
    /\ FallbackScore(ExampleResponses).category_scores = ExampleCategoryScores
    /\ FallbackScore(ExampleResponses).overall_score = 45 * Unit

\* two different ratings of one category averaged, the other categories 0
C7_Witness ==
    /\ ret.op = "fallback"
    /\ \E q1, q2 \in DOMAIN arg \cap DOMAIN question_categories :
           /\ q1 # q2
           /\ question_categories[q1] = question_categories[q2]
           /\ arg[q1] < arg[q2]
           /\ ret.category_scores[question_categories[q1]] > (arg[q1] - 1) * 25 * Unit
           /\ ret.category_scores[question_categories[q1]] < (arg[q2] - 1) * 25 * Unit
           /\ ret.overall_score * 5 = ret.category_scores[question_categories[q1]]

LevelOrder == <<"Novice", "Developing", "Intermediate", "Advanced", "Expert">>

LevelRank(level) == CHOOSE i \in 1..Len(LevelOrder) : LevelOrder[i] = level

\* the step function of C8
StepLevel(x) ==
    CASE x < 35 * Unit -> "Novice"
      [] 35 * Unit <= x /\ x < 55 * Unit -> "Developing"
      [] 55 * Unit <= x /\ x < 70 * Unit -> "Intermediate"
      [] 70 * Unit <= x /\ x < 85 * Unit -> "Advanced"
      [] x >= 85 * Unit -> "Expert"

\* C8: the fallback classifier is total on [0, 100], is the 35/55/70/85 step
\* function with each boundary in the higher level, and is monotone
C8_ClassifierStepFunction ==
    ret.op = "classify" =>
        /\ ret.maturity_level \in {LevelOrder[i] : i \in 1..Len(LevelOrder)}
        /\ ret.maturity_level = StepLevel(arg)
        /\ \A b \in arg..(100 * Unit) :
               LevelRank(FallbackMaturityLevel(b)) >= LevelRank(ret.maturity_level)

\* the boundary 85 classified
C8_Witness ==
    /\ ret.op = "classify"
    /\ arg = 85 * Unit
    /\ ret.maturity_level = "Expert"

\* C10: baseline for an empty history; otherwise, with delta the current
\* score minus the score of history[0], improving iff delta > 5, declining
\* iff delta < -5, stable iff -5 <= delta <= 5
C10_TrendDeadZone ==
    ret.op = "trend" =>
        /\ Len(arg.user_history) = 0 =>
               ~ret.raised /\ ret.value.trend = "baseline"
        /\ (Len(arg.user_history) > 0 /\ arg.user_history[1].overall_score.t = "num") =>
               LET delta == arg.current_score - arg.user_history[1].overall_score.v
               IN /\ ~ret.raised
                  /\ ret.value.trend = "improving" <=> delta > 5 * Unit
                  /\ ret.value.trend = "declining" <=> delta < -5 * Unit
                  /\ ret.value.trend = "stable" <=>
                         (-5 * Unit <= delta /\ delta <= 5 * Unit)

\* a delta of exactly 5 reported as stable
C10_Witness ==
    /\ ret.op = "trend"
    /\ Len(arg.user_history) > 0
    /\ arg.user_history[1].overall_score.t = "num"
    /\ arg.current_score - arg.user_history[1].overall_score.v = 5 * Unit
    /\ ret.value.trend = "stable"

-----------------------------------------------------------------------------
(* Properties of submit_assessment                                         *)

ValidSubmission(responses) ==
    \A question \in DOMAIN responses : responses[question] \in ValidRatings

\* the keys an assessment must carry
AssessmentKeys ==
    {"overall_score", "maturity_level", "category_scores", "strengths",
     "improvement_areas", "ai_recommendations", "improvement_trend"}

\* the value returned to the caller is an assessment with every key set
CompleteAssessment(result) ==
    /\ result.status = "ok"
    /\ AssessmentKeys \subseteq DOMAIN result
    /\ "trend" \in DOMAIN result.improvement_trend

CompleteFallback(result) ==
    /\ CompleteAssessment(result)
    /\ result.mcp_powered = FALSE
    /\ DOMAIN result.category_scores = CategoryNames

\* the rows a request has persisted
RowsOf(assessment_id) ==
    {i \in 1..Len(store) : store[i].assessment_id = assessment_id}

\* C1: when the AI call fails and no storage step fails, the request
\* returns a complete assessment marked as fallback (stated for the
\* submissions with ratings in 1..5)
C1_FallbackComplete ==
    \A c \in DOMAIN calls :
        (/\ calls[c].pc = "done"
         /\ ValidSubmission(calls[c].responses)
         /\ calls[c].mcp_result.kind = "error"
         /\ calls[c].faults = {}) =>
            CompleteFallback(calls[c].result)

\* C2: with valid ratings, a request in which a storage step failed still
\* returns a complete assessment
C2_StorageFailureNeverSurfaces ==
    \A c \in DOMAIN calls :
        (/\ calls[c].pc = "done"
         /\ ValidSubmission(calls[c].responses)
         /\ calls[c].faults # {}) =>
            CompleteAssessment(calls[c].result)

\* a success answer that is not a mapping, or whose maturity_score is null
\* or not a number
MalformedReply(reply) ==
    \/ reply.kind = "list"
    \/ reply.kind = "mapping" /\ reply.has_score /\ reply.maturity_score.t # "num"

\* C3: a malformed success payload is recovered by returning the
\* deterministic fallback assessment, never an error (stated for ratings in
\* 1..5 and a store without failures)
C3_MalformedPayloadRecovered ==
    \A c \in DOMAIN calls :
        (/\ calls[c].pc = "done"
         /\ ValidSubmission(calls[c].responses)
         /\ MalformedReply(calls[c].mcp_result)
         /\ calls[c].faults = {}) =>
            /\ CompleteFallback(calls[c].result)
            /\ calls[c].result.category_scores =
                   FallbackScore(calls[c].responses).category_scores

\* a success payload without maturity_score or with one outside [0, 100]
UnusableScore(reply) ==
    /\ reply.kind = "mapping"
    /\ \/ ~reply.has_score
       \/ reply.maturity_score.t = "num" /\ ~InRange(reply.maturity_score.v)

\* C4: with a missing or out-of-range maturity_score, the overall_score
\* returned and persisted is the one of the deterministic scorer (stated
\* for ratings in 1..5 and a store without failures)
C4_UnusableScoreRecomputed ==
    \A c \in DOMAIN calls :
        (/\ calls[c].pc = "done"
         /\ ValidSubmission(calls[c].responses)
         /\ UnusableScore(calls[c].mcp_result)
         /\ calls[c].faults = {}) =>
            LET overall_score == FallbackScore(calls[c].responses).overall_score
            IN /\ calls[c].result.status = "ok"
               /\ calls[c].result.overall_score = Round1(overall_score)
               /\ \A i \in RowsOf(calls[c].assessment_id) :
                      store[i].overall_score = Num(overall_score)

\* C5: a submission with a rating outside 1..5 is rejected with a
\* validation error: no AI call, no score, no persisted record
C5_OutOfScaleRejected ==
    \A c \in DOMAIN calls :
        (/\ calls[c].pc = "done"
         /\ ~ValidSubmission(calls[c].responses)) =>
            /\ calls[c].result.status = "validation_error"
            /\ calls[c].ai_calls = 0
            /\ RowsOf(calls[c].assessment_id) = {}

\* C9: the maturity_level of every assessment a request returns or
\* persists is one of the five levels and is the level of the 35/55/70/85
\* step function for the overall_score of the same assessment (stated for
\* ratings in 1..5)
C9_LevelDerivedFromScore ==
    \A c \in DOMAIN calls :
        (calls[c].pc = "done" /\ ValidSubmission(calls[c].responses)) =>
            /\ calls[c].result.status = "ok" =>
                   /\ calls[c].result.maturity_level \in
                          {LevelOrder[i] : i \in 1..Len(LevelOrder)}
                   /\ calls[c].result.maturity_level =
                          StepLevel(calls[c].result.overall_score)
            /\ \A i \in RowsOf(calls[c].assessment_id) :
                   /\ store[i].maturity_level \in
                          {LevelOrder[k] : k \in 1..Len(LevelOrder)}
                   /\ store[i].overall_score.t = "num" =>
                          store[i].maturity_level = StepLevel(store[i].overall_score.v)

-----------------------------------------------------------------------------
(* Properties of repeated and concurrent submissions                       *)

\* the request of slot c and all requests of its user so far ran one after
\* the other, and no other request is in progress
RanSequentially(c) ==
    /\ calls[c].alone
    /\ returned[calls[c].user_id].sequential
    /\ \A d \in DOMAIN calls \ {c} : calls[d].pc = "idle"

\* C11: in a sequence of submissions of one user, each finishing before the
\* next starts, the first assessment returned reports the baseline and
\* every later one reports as delta its overall_score minus the
\* overall_score of the assessment returned just before it
C11_TrendAgainstPrecedingSubmission ==
    \A c \in DOMAIN calls :
        (/\ calls[c].pc = "done"
         /\ calls[c].result.status = "ok"
         /\ RanSequentially(c)) =>
            LET previous == returned[calls[c].user_id]
                trend == calls[c].result.improvement_trend
            IN IF previous.status = "none"
               THEN trend.trend = "baseline"
               ELSE /\ trend.trend # "baseline"
                    /\ trend.improvement_points =
                           calls[c].result.overall_score - previous.overall_score

\* the rows of a user lie in pairwise different seconds
DistinctSeconds(user) ==
    \A i, j \in 1..Len(store) :
        (i < j /\ store[i].user_id = user /\ store[j].user_id = user) =>
            store[i].created_at # store[j].created_at

\* C12: a submission that overlapped another submission of its user
\* persists its record and reports the delta against the record that
\* precedes its own in the persisted history of the user, the baseline if
\* none precedes (stated for histories without two rows in one second)
C12_ConcurrentTrendAgainstHistory ==
    \A c \in DOMAIN calls :
        (/\ calls[c].pc = "done"
         /\ calls[c].result.status = "ok"
         /\ ~RanSequentially(c)
         /\ DistinctSeconds(calls[c].user_id)) =>
            /\ RowsOf(calls[c].assessment_id) # {}
            /\ \A i \in RowsOf(calls[c].assessment_id) :
                   LET earlier == {j \in 1..(i - 1) :
                                      store[j].user_id = calls[c].user_id}
                       last == CHOOSE j \in earlier : \A k \in earlier : k <= j
                       trend == calls[c].result.improvement_trend
                   IN IF earlier = {}
                      THEN trend.trend = "baseline"
                      ELSE /\ trend.trend # "baseline"
                           /\ trend.improvement_points =
                                  Round1(store[i].overall_score.v
                                             - store[last].overall_score.v)

\* C17: a request calls the assessment service at most once, also when the
\* call failed and when the fallback is entered again through the
\* storage-error handler
C17_AtMostOneAiCall ==
    \A c \in DOMAIN calls : calls[c].ai_calls <= 1

\* the service failed, the fallback raised and ran again in the handler
C17_Witness ==
    \E c \in DOMAIN calls :
        /\ calls[c].pc = "done"
        /\ calls[c].mcp_result.kind = "error"
        /\ calls[c].fallback_entries = 2
        /\ calls[c].ai_calls = 1

-----------------------------------------------------------------------------
(* Properties of the question selector                                     *)

\* ret is a list that generate_adaptive_questions built from the bank
StaticBankOutput ==
    /\ ret.op = "generate_adaptive_questions"
    /\ ret.gemini # "answers"

\* the items of the latest category_scores, none for an empty history
LatestItems ==
    IF Len(arg.user_history) = 0 THEN <<>> ELSE arg.user_history[1].category_scores

NumericItems ==
    \A i \in 1..Len(LatestItems) : LatestItems[i].score.t = "num"

\* the positions of the weak items and their number
WeakPositions ==
    {i \in 1..Len(LatestItems) : LatestItems[i].score.v < 60 * Unit}

\* the lower-cased key of the n-th weak item
WeakKey(n) ==
    LET i == CHOOSE k \in WeakPositions :
                 Cardinality({j \in WeakPositions : j <= k}) = n
    IN LowerCase(LatestItems[i].key)

\* the bank entries of a weak key, in bank order
BankPositions(key) ==
    {b \in 1..Len(question_bank.advanced) :
        MatchesArea(key, question_bank.advanced[b])}

\* the r-th bank entry of a weak key
BankEntryOf(key, r) ==
    LET b == CHOOSE k \in BankPositions(key) :
                 Cardinality({j \in BankPositions(key) : j <= k}) = r
    IN question_bank.advanced[b]

IsEntry(question, entry) ==
    question.category = entry.category /\ question.focus = entry.focus

\* C13: the list returned, from the bank or from the AI model, holds at
\* most question_count questions (none for a negative question_count)
C13_AtMostRequestedCount ==
    ret.op = "generate_adaptive_questions" =>
        Len(ret.questions) <= (IF arg.question_count < 0 THEN 0 ELSE arg.question_count)

\* C14: a list built from the bank holds no id and no bank entry twice
\* (stated for a question_count of at least 0)
C14_NoDuplicateQuestion ==
    (StaticBankOutput /\ arg.question_count >= 0) =>
        \A i, j \in 1..Len(ret.questions) :
            i < j => /\ ret.questions[i].id # ret.questions[j].id
                     /\ ret.questions[i].focus # ret.questions[j].focus

\* every weak key of the latest assessment has a question in the bank
PoolCoversWeakKeys ==
    /\ NumericItems
    /\ WeakPositions # {}
    /\ \A n \in 1..Cardinality(WeakPositions) : BankPositions(WeakKey(n)) # {}

\* the list holds a question of every weak key
EveryWeakKeyAsked ==
    \A n \in 1..Cardinality(WeakPositions) :
        \E i \in 1..Len(ret.questions) :
            MatchesArea(WeakKey(n), ret.questions[i])

\* C15 as claimed: with a weak category, each covered by the pool, and a
\* question_count of at least 1, the list built from the bank holds a
\* question of every weak category
C15_EveryWeakCategoryAsked ==
    (StaticBankOutput /\ PoolCoversWeakKeys /\ arg.question_count >= 1) =>
        EveryWeakKeyAsked

\* C15 as amended: the same for a question_count of at least 2k - 1, k the
\* number of weak entries of the latest category_scores
C15_EveryWeakCategoryAskedWithinCount ==
    (/\ StaticBankOutput
     /\ PoolCoversWeakKeys
     /\ arg.question_count >= 2 * Cardinality(WeakPositions) - 1) =>
        EveryWeakKeyAsked

\* two weak categories and three questions: the third is of the second
C15_Witness ==
    /\ StaticBankOutput
    /\ PoolCoversWeakKeys
    /\ Cardinality(WeakPositions) = 2
    /\ WeakKey(1) = "culture"
    /\ WeakKey(2) = "automation"
    /\ arg.question_count = 3
    /\ Len(ret.questions) = 3
    /\ ret.questions[3].category = "Automation"

\* C19: both selectors take the weak categories from history[0] alone: the
\* keys whose score there is below 60, in the order of the dict; none for
\* an empty history; 60 is not weak; older entries change nothing
C19_WeakFromLatestOnly ==
    (ret.op = "weak_areas" /\ NumericItems) =>
        /\ ~ret.tool.raised
        /\ Len(ret.tool.value) = Cardinality(WeakPositions)
        /\ \A n \in 1..Len(ret.tool.value) : ret.tool.value[n] = WeakKey(n)
        /\ Len(arg.user_history) = 0 => ret.tool.value = <<>>
        /\ Len(arg.user_history) > 0 =>
               ret.tool = WeakAreas(<<arg.user_history[1]>>)
        /\ ret.backend = ret.tool

\* a score of 60 beside a weak one, and an older entry that is weak elsewhere
C19_Witness ==
    /\ ret.op = "weak_areas"
    /\ Len(arg.user_history) = 2
    /\ Len(LatestItems) = 2
    /\ LatestItems[1].score = Num(60 * Unit)
    /\ LatestItems[2].score = Num(59 * Unit)
    /\ ret.tool.value = <<LowerCase(LatestItems[2].key)>>
    /\ arg.user_history[2].category_scores[1].score.v < 60 * Unit

\* the slots of the first phase: <<n, r>> is the r-th question, r <= 2, of
\* the n-th weak key
FirstPhaseSlots ==
    {slot \in (1..Cardinality(WeakPositions)) \X (1..2) :
        slot[2] <= Cardinality(BankPositions(WeakKey(slot[1])))}

\* the position of a slot in the list
SlotPosition(slot) ==
    Cardinality({other \in FirstPhaseSlots :
        \/ other[1] < slot[1]
        \/ other[1] = slot[1] /\ other[2] <= slot[2]})

\* the bank entries of the first phase
FirstPhaseEntries ==
    {BankEntryOf(WeakKey(slot[1]), slot[2]) : slot \in FirstPhaseSlots}

\* the position in the bank of a question of the list
BankPosition(question) ==
    CHOOSE b \in 1..Len(question_bank.advanced) :
        IsEntry(question, question_bank.advanced[b])

\* C20: the list built from the bank starts with, for each weak category in
\* the order of discovery, its first two bank questions; then come the
\* bank questions outside that first phase, in bank order and without gap
C20_WeakFirstThenBankOrder ==
    (StaticBankOutput /\ NumericItems) =>
        LET out == ret.questions
            slots == FirstPhaseSlots
            first == Cardinality(slots)
            entries == FirstPhaseEntries
            at == [i \in 1..Len(out) |-> BankPosition(out[i])]
            later == {b \in 1..Len(question_bank.advanced) :
                         question_bank.advanced[b] \notin entries}
        IN /\ \A slot \in slots :
                  SlotPosition(slot) <= Len(out) =>
                      IsEntry(out[SlotPosition(slot)],
                              BankEntryOf(WeakKey(slot[1]), slot[2]))
           /\ \A i \in (first + 1)..Len(out) :
                  /\ at[i] \in later
                  /\ \A b \in later :
                         b < at[i] => \E j \in (first + 1)..(i - 1) : at[j] = b
                  /\ \A j \in (first + 1)..(i - 1) : at[j] < at[i]

\* Automation weak: its two first questions, then the bank from its start
C20_Witness ==
    /\ StaticBankOutput
    /\ NumericItems
    /\ Cardinality(WeakPositions) = 1
    /\ WeakKey(1) = "automation"
    /\ Len(ret.questions) = 5
    /\ ret.questions[1].focus = "infrastructure_automation"
    /\ ret.questions[2].focus = "testing_maturity"
    /\ ret.questions[3].focus = "culture_maturity"
    /\ ret.questions[4].focus = "observability_maturity"
    /\ ret.questions[5].focus = "team_autonomy"

\* the list the static-bank selection yields for the request of the client
StaticSelection ==
    FormatQuestions(
        PySlice(SelectQuestions(question_bank.advanced, WeakAreas(arg.user_history).value),
                ClientQuestionCount),
        arg.current_level)

\* C16: when the generation of questions by the AI fails, a question
\* endpoint answers the non-empty list of the static-bank selection and no
\* error
C16_QuestionFallbackOnAiFailure ==
    (/\ ret.op \in {"get_questions", "post_questions"}
     /\ ret.failure \in {"exception", "status", "model", "tool"}) =>
        /\ ret.result.status = "ok"
        /\ Len(ret.result.questions) > 0
        /\ \A i \in 1..Len(ret.result.questions) :
               /\ i <= Len(StaticSelection)
               /\ ret.result.questions[i].category = StaticSelection[i].category

-----------------------------------------------------------------------------
(* Properties of the stored records                                        *)

\* C18: no step of a submission, a retrieval or a question request removes
\* or changes a row of devops_assessments, and a retrieval answers with the
\* overall_score, maturity_level and category_scores of the row
C18_AppendOnlyHistory ==
    /\ [][/\ Len(store') >= Len(store)
          /\ \A i \in 1..Len(store) : store'[i] = store[i]]_vars
    /\ [](\A i \in 1..Len(store) :
             (/\ ret.op = "get_assessment_results"
              /\ ret.result.status = "ok"
              /\ ret.result.assessment_id = store[i].assessment_id) =>
                 /\ ret.result.overall_score = store[i].overall_score
                 /\ ret.result.maturity_level = store[i].maturity_level
                 /\ ret.result.category_scores = store[i].category_scores)

\* the first of two records of a user read back after the second was stored
C18_Witness ==
    /\ Len(store) = 2
    /\ store[1].user_id = store[2].user_id
    /\ ret.op = "get_assessment_results"
    /\ ret.result.status = "ok"
    /\ ret.result.assessment_id = store[1].assessment_id
    /\ ret.result.overall_score = store[1].overall_score

-----------------------------------------------------------------------------
(* Properties of the level pools                                           *)

\* the pool a bank holds for a level: its entry, the intermediate entry for
\* a level without entry
LevelPool(bank, level) ==
    IF level \in DOMAIN bank THEN bank[level] ELSE DictGet(bank, "intermediate", <<>>)

\* C21: the static selection draws its questions from the bank entry of
\* current_level, and from the intermediate pool when current_level has no
\* bank entry; in the tool (for a question_count of at least 1) and in the
\* selector of the backend
C21_PoolOfLevelOrIntermediate ==
    /\ (StaticBankOutput /\ NumericItems /\ arg.question_count >= 1) =>
           LET pool == LevelPool(question_bank, LowerCase(arg.current_level))
           IN \A i \in 1..Len(ret.questions) :
                  \E b \in 1..Len(pool) : IsEntry(ret.questions[i], pool[b])
    /\ (ret.op = "fallback_questions" /\ ~ret.raised) =>
           LET pool == LevelPool(base_questions, ret.level)
           IN \A i \in 1..Len(ret.questions) :
                  \/ \E b \in 1..Len(pool) : ret.questions[i] = pool[b]
                  \/ ret.questions[i].id = "collab_focused_1"

-----------------------------------------------------------------------------
(* Properties of the lists of a fallback assessment                        *)

\* the request of slot c returned an assessment of _fallback_assessment
ReturnedFallback(c) ==
    /\ calls[c].pc = "done"
    /\ calls[c].result.status = "ok"
    /\ ~calls[c].result.mcp_powered

\* the entries of a list
Entries(seq) == {seq[i] : i \in 1..Len(seq)}

\* C22: the recommendations of a fallback assessment hold the canned
\* recommendation of a category, recognised by its action, exactly when the
\* fallback score of the category is at most 25; at most once, and at most
\* 5 entries in all (stated for ratings in 1..5)
C22_FallbackRecommendationsByScore ==
    \A c \in DOMAIN calls :
        (ReturnedFallback(c) /\ ValidSubmission(calls[c].responses)) =>
            LET recommendations == calls[c].result.ai_recommendations
                category_scores == calls[c].result.category_scores
            IN /\ Len(recommendations) <= 5
               /\ \A category \in CategoryNames :
                      LET action == rec_map[LowerCase(category)].action
                      IN /\ action \in Entries(recommendations) <=>
                                category_scores[category] <= 25 * Unit
                         /\ Cardinality({i \in 1..Len(recommendations) :
                                            recommendations[i] = action}) <= 1

\* C24: the strengths of a fallback assessment hold the strength label of a
\* category exactly when its raw score is at least 4 (75 points), the
\* improvement_areas hold its improvement label exactly when its raw score
\* is at most 2 (25 points) (stated for ratings in 1..5)
C24_FallbackStrengthsAndImprovements ==
    \A c \in DOMAIN calls :
        (ReturnedFallback(c) /\ ValidSubmission(calls[c].responses)) =>
            LET category_scores == calls[c].result.category_scores
            IN \A category \in CategoryNames :
                   /\ strength_map[LowerCase(category)]
                          \in Entries(calls[c].result.strengths) <=>
                              category_scores[category] >= 75 * Unit
                   /\ improvement_map[LowerCase(category)]
                          \in Entries(calls[c].result.improvement_areas) <=>
                              category_scores[category] <= 25 * Unit

-----------------------------------------------------------------------------
(* Properties of the template recommendations                              *)

\* the area whose entry of a template mapping a recommendation is
AreaOf(templates, recommendation) ==
    CHOOSE area \in DOMAIN templates : templates[area] = recommendation

\* no recommendation of the list follows one of a higher-scored area
AscendingByScore(templates, recommendations, scores) ==
    \A i, j \in 1..Len(recommendations) :
        i < j => scores[AreaOf(templates, recommendations[i])]
                     <= scores[AreaOf(templates, recommendations[j])]

\* C23: the list of generate_basic_recommendations and the list of
\* generate_fallback_recommendations are ordered by ascending score of
\* their categories
C23_RecommendationsAscendingByScore ==
    ret.op = "recommendations" =>
        /\ AscendingByScore(rec_map, ret.basic, ret.scores)
        /\ AscendingByScore(recommendation_templates, ret.fallback, ret.scores)

-----------------------------------------------------------------------------
(* Properties of the storage steps of submit_assessment                    *)

\* the request of slot c ended without reading the history: the connection
\* or the history query failed, and the assessment service was not called
HistoryUnreadable(c) ==
    /\ calls[c].pc = "done"
    /\ calls[c].ai_calls = 0

\* C25: a request whose history could not be read returns a complete
\* assessment whose trend is the baseline (stated for ratings in 1..5)
C25_UnreadableHistoryIsBaseline ==
    \A c \in DOMAIN calls :
        (HistoryUnreadable(c) /\ ValidSubmission(calls[c].responses)) =>
            /\ CompleteAssessment(calls[c].result)
            /\ calls[c].result.improvement_trend.trend = "baseline"

\* C26: an assessment returned with assessment_id X has a record X in the
\* store, and get_assessment_results(X) finds it; on both paths and on
\* either layout of the table (stated for ratings in 1..5)
C26_ReturnedAssessmentIsStored ==
    \A c \in DOMAIN calls :
        (/\ calls[c].pc = "done"
         /\ ValidSubmission(calls[c].responses)
         /\ calls[c].result.status = "ok") =>
            /\ RowsOf(calls[c].result.assessment_id) # {}
            /\ get_assessment_results(store, calls[c].result.assessment_id).status = "ok"

\* C27: a request that ends with an error has persisted no record (stated
\* for ratings in 1..5)
C27_ErrorLeavesNoRecord ==
    \A c \in DOMAIN calls :
        (/\ calls[c].pc = "done"
         /\ ValidSubmission(calls[c].responses)
         /\ calls[c].result = Http500) =>
            RowsOf(calls[c].assessment_id) = {}

\* the assessment service answered a mapping with a score within [0, 100]
AiCallSucceeded(c) ==
    /\ calls[c].mcp_result.kind = "mapping"
    /\ calls[c].mcp_result.has_score
    /\ calls[c].mcp_result.maturity_score.t = "num"
    /\ InRange(calls[c].mcp_result.maturity_score.v)

\* C28: a request whose call of the assessment service succeeded returns no
\* fallback assessment and persists no fallback record (stated for ratings
\* in 1..5)
C28_FallbackOnlyAfterAiFailure ==
    \A c \in DOMAIN calls :
        (/\ calls[c].pc = "done"
         /\ ValidSubmission(calls[c].responses)
         /\ AiCallSucceeded(c)) =>
            /\ calls[c].result.status = "ok" => calls[c].result.mcp_powered
            /\ \A i \in RowsOf(calls[c].assessment_id) : ~store[i].fallback_mode

\* C30: the store holds at most one record per assessment_id, and only
\* under the ids drawn by the requests so far: a request adds at most one
\* record, under its own id
C30_AtMostOneRecordPerCall ==
    /\ \A assessment_id \in 1..next_id : Cardinality(RowsOf(assessment_id)) <= 1
    /\ \A i \in 1..Len(store) : store[i].assessment_id \in 1..(next_id - 1)

\* the fallback stored the record, raised in the trend, and ran again in
\* the storage-error handler without storing a second one
C30_Witness ==
    \E c \in DOMAIN calls :
        /\ calls[c].pc = "done"
        /\ calls[c].mcp_result.kind = "error"
        /\ calls[c].fallback_entries = 2
        /\ calls[c].faults = {}
        /\ Cardinality(RowsOf(calls[c].assessment_id)) = 1

-----------------------------------------------------------------------------
(* C29: a top-rated category and the next question request                 *)

\* the answered questions of a category, by the table of the fallback scorer
AnsweredIn(responses, category) ==
    {question \in DOMAIN responses :
        question \in DOMAIN question_categories
            /\ question_categories[question] = category}

TopRated(responses, category) ==
    /\ AnsweredIn(responses, category) # {}
    /\ \A question \in AnsweredIn(responses, category) : responses[question] = 5

\* C29: when the selector of a question request runs on a history whose
\* latest record stores the top rating on every answered question of a
\* category, that category is not among the selector's weak areas
C29_TopRatedNeverWeak ==
    (/\ ret.op = "post_questions_of"
     /\ ret.selector_ran
     /\ Len(ret.submitted) > 0) =>
        \A category \in CategoryNames :
            TopRated(ret.submitted[1], category) =>
                \A i \in 1..Len(ret.weak_areas) :
                    ret.weak_areas[i] # LowerCase(category)

\* the same for the records the fallback scorer persisted
C29_TopRatedNeverWeakAfterFallback ==
    (/\ ret.op = "post_questions_of"
     /\ ret.selector_ran
     /\ Len(ret.submitted) > 0
     /\ \E i \in 1..Len(store) :
            /\ store[i].fallback_mode
            /\ store[i].responses = ret.submitted[1]
     /\ \A i \in 1..Len(store) : store[i].fallback_mode) =>
        \A category \in CategoryNames :
            TopRated(ret.submitted[1], category) =>
                \A i \in 1..Len(ret.weak_areas) :
                    ret.weak_areas[i] # LowerCase(category)

====
